---------------------------- MODULE Spec2Model ----------------------------
(***************************************************************************)
(* The technical-analysis engine of crypto-nova: analyzeMarket and its     *)
(* indicator helpers, in the "simple" variant (services/marketService.ts)  *)
(* and the "extended" variant (unnamed/part_006).                          *)
(*                                                                         *)
(* JavaScript numbers are modelled as exact rationals <<n, d>> (d > 0, in  *)
(* lowest terms) together with the IEEE special values NaN, +Infinity and  *)
(* -Infinity and the JavaScript value undefined.  Rounding of finite       *)
(* doubles and the sign of zero are not modelled.                          *)
(***************************************************************************)
EXTENDS Integers, Sequences, FiniteSets, TLC

VARIABLES candles, engine, result, helper, value

\* src/App.tsx: React state and refs of the App component, and its handlers
VARIABLES stage, deepAnalysis, isSystemBusy, orbState, isMicActive, isAnalysisRunningRef, visualCompleteResolverRef, whopUser, liveAudio, pc, ret

\* src/server.js: the stored user document and the requests in flight
VARIABLES dbCredits, creditsBefore, reqPc, reqUser, reqRes

appVars == <<stage, deepAnalysis, isSystemBusy, orbState, isMicActive, isAnalysisRunningRef, visualCompleteResolverRef, whopUser, liveAudio, pc, ret>>

srvVars == <<dbCredits, creditsBefore, reqPc, reqUser, reqRes>>

vars == <<candles, engine, result, helper, value, appVars, srvVars>>

-----------------------------------------------------------------------------
(* JavaScript number values *)

NaN == <<0, 0>>
PosInf == <<1, 0>>
NegInf == <<-1, 0>>
Undefined == <<0, -1>>

AbsInt(n) == IF n < 0 THEN -n ELSE n
SignInt(n) == IF n < 0 THEN -1 ELSE IF n > 0 THEN 1 ELSE 0

RECURSIVE GCD(_, _)
GCD(a, b) == IF b = 0 THEN a ELSE GCD(b, a % b)

\* n/d in lowest terms, d # 0
Norm(n, d) ==
  LET g == GCD(AbsInt(n), AbsInt(d))
      s == IF d < 0 THEN -1 ELSE 1
  IN <<(s * n) \div g, (s * d) \div g>>

Num(n) == <<n, 1>>
Frac(n, d) == Norm(n, d)

\* ToNumber: undefined converts to NaN in every arithmetic operator
ToNumber(x) == IF x = Undefined THEN NaN ELSE x

IsNaN(x) == ToNumber(x) = NaN
IsFinite(x) == x[2] > 0
IsInteger(x) == x[2] = 1

Neg(x0) ==
  LET x == ToNumber(x0) IN <<-x[1], x[2]>>

Add(x0, y0) ==
  LET x == ToNumber(x0)
      y == ToNumber(y0)
  IN IF x = NaN \/ y = NaN THEN NaN
     ELSE IF x[2] = 0 /\ y[2] = 0 THEN (IF x = y THEN x ELSE NaN)
     ELSE IF x[2] = 0 THEN x
     ELSE IF y[2] = 0 THEN y
     ELSE LET g == GCD(x[2], y[2])
          IN Norm(x[1] * (y[2] \div g) + y[1] * (x[2] \div g),
                  (x[2] \div g) * y[2])

Sub(x, y) == Add(x, Neg(y))

Mul(x0, y0) ==
  LET x == ToNumber(x0)
      y == ToNumber(y0)
  IN IF x = NaN \/ y = NaN THEN NaN
     ELSE IF x[2] = 0 \/ y[2] = 0
          THEN (IF x[1] = 0 \/ y[1] = 0 THEN NaN
                ELSE <<SignInt(x[1]) * SignInt(y[1]), 0>>)
     ELSE LET g1 == GCD(AbsInt(x[1]), y[2])
              g2 == GCD(AbsInt(y[1]), x[2])
          IN Norm((x[1] \div g1) * (y[1] \div g2),
                  (x[2] \div g2) * (y[2] \div g1))

Div(x0, y0) ==
  LET x == ToNumber(x0)
      y == ToNumber(y0)
  IN IF x = NaN \/ y = NaN THEN NaN
     ELSE IF x[2] = 0 /\ y[2] = 0 THEN NaN
     ELSE IF x[2] = 0 THEN <<x[1] * (IF y[1] < 0 THEN -1 ELSE 1), 0>>
     ELSE IF y[2] = 0 THEN Num(0)
     ELSE IF y[1] = 0 THEN (IF x[1] = 0 THEN NaN ELSE <<SignInt(x[1]), 0>>)
     ELSE LET g1 == GCD(AbsInt(x[1]), AbsInt(y[1]))
              g2 == GCD(x[2], y[2])
          IN Norm((x[1] \div g1) * (y[2] \div g2),
                  (x[2] \div g2) * (y[1] \div g1))

\* x < y; false whenever an operand is NaN
Lt(x0, y0) ==
  LET x == ToNumber(x0)
      y == ToNumber(y0)
  IN IF x = NaN \/ y = NaN THEN FALSE
     ELSE IF x[2] = 0 /\ y[2] = 0 THEN x[1] < y[1]
     ELSE IF x[2] = 0 THEN x[1] < 0
     ELSE IF y[2] = 0 THEN y[1] > 0
     ELSE LET g == GCD(x[2], y[2])
          IN x[1] * (y[2] \div g) < y[1] * (x[2] \div g)

Gt(x, y) == Lt(y, x)

\* x === y on numbers; false whenever an operand is NaN
StrictEq(x, y) == x # NaN /\ x # Undefined /\ x = y

Ge(x, y) == Gt(x, y) \/ (ToNumber(x) # NaN /\ ToNumber(x) = ToNumber(y))
Le(x, y) == Ge(y, x)

\* Math.abs
MathAbs(x0) ==
  LET x == ToNumber(x0) IN <<AbsInt(x[1]), x[2]>>

\* Math.max / Math.min of two arguments: NaN when an argument is NaN
Max2(x0, y0) ==
  LET x == ToNumber(x0)
      y == ToNumber(y0)
  IN IF x = NaN \/ y = NaN THEN NaN ELSE IF Lt(x, y) THEN y ELSE x

Min2(x0, y0) ==
  LET x == ToNumber(x0)
      y == ToNumber(y0)
  IN IF x = NaN \/ y = NaN THEN NaN ELSE IF Lt(y, x) THEN y ELSE x

\* v evaluated, then e: a loop's variables are values before its next iteration
Then(v, e) == IF v = v THEN e ELSE e

\* Math.max(...s) and Math.min(...s): -Infinity and +Infinity on no argument
RECURSIVE MaxOf(_, _, _)
MaxOf(s, i, acc) ==
  IF i > Len(s) THEN acc
  ELSE LET nxt == Max2(acc, s[i]) IN Then(nxt, MaxOf(s, i + 1, nxt))

RECURSIVE MinOf(_, _, _)
MinOf(s, i, acc) ==
  IF i > Len(s) THEN acc
  ELSE LET nxt == Min2(acc, s[i]) IN Then(nxt, MinOf(s, i + 1, nxt))

MathMax(s) == MaxOf(s, 1, NegInf)
MathMin(s) == MinOf(s, 1, PosInf)

\* truthiness of a number or undefined: 0, NaN and undefined are falsy
Truthy(x) == x # Undefined /\ x # NaN /\ ~(x[2] > 0 /\ x[1] = 0)

\* a || b
OrElse(a, b) == IF Truthy(a) THEN a ELSE b

\* data[i] with 1-based i; undefined outside the array
At(s, i) == IF i >= 1 /\ i <= Len(s) THEN s[i] ELSE Undefined

\* data.slice(-n)
SliceLast(s, n) == IF Len(s) <= n THEN s ELSE SubSeq(s, Len(s) - n + 1, Len(s))

\* data.reduce((a, b) => a + b, 0)
RECURSIVE SumFrom(_, _, _)
SumFrom(s, i, acc) ==
  IF i > Len(s) THEN acc
  ELSE LET nxt == Add(acc, s[i]) IN Then(nxt, SumFrom(s, i + 1, nxt))

Sum(s) == SumFrom(s, 1, Num(0))

-----------------------------------------------------------------------------
(* Math helpers, simple variant (services/marketService.ts) *)

Period == 14

calculateSMA(data, period) ==
  IF Len(data) < period THEN OrElse(At(data, Len(data)), Num(0))
  ELSE Div(Sum(SliceLast(data, period)), Num(period))

\* mutant: the weights k and 1 - k exchanged
RECURSIVE emaLoopWeightsSwapped(_, _, _, _)
emaLoopWeightsSwapped(data, k, i, ema) ==
  IF i > Len(data) THEN ema
  ELSE LET nxt == Add(Mul(data[i], Sub(Num(1), k)), Mul(ema, k))
       IN Then(nxt, emaLoopWeightsSwapped(data, k, i + 1, nxt))

\* the for loop of calculateEMA from 1-based index i on, ema its variable
RECURSIVE emaLoop(_, _, _, _)
emaLoop(data, k, i, ema) ==
  IF i > Len(data) THEN ema
  ELSE LET nxt == Add(Mul(data[i], k), Mul(ema, Sub(Num(1), k)))
       IN Then(nxt, emaLoop(data, k, i + 1, nxt))

calculateEMA(data, period) ==
  IF Len(data) < period THEN OrElse(At(data, Len(data)), Num(0))
  ELSE emaLoop(data, Frac(2, period + 1), 2, At(data, 1))

\* mutant: the bar's own close in place of the previous close
trueRangeSameBar(highs, lows, closes, i) ==
  LET hl == Sub(highs[i], lows[i])
      hcp == MathAbs(Sub(highs[i], closes[i]))
      lcp == MathAbs(Sub(lows[i], closes[i]))
  IN MathMax(<<hl, hcp, lcp>>)

\* the true range pushed for bar i (1-based, i >= 2)
trueRange(highs, lows, closes, i) ==
  LET hl == Sub(highs[i], lows[i])
      hcp == MathAbs(Sub(highs[i], closes[i - 1]))
      lcp == MathAbs(Sub(lows[i], closes[i - 1]))
  IN MathMax(<<hl, hcp, lcp>>)

trueRanges(highs, lows, closes) ==
  [j \in 1..(Len(closes) - 1) |-> trueRange(highs, lows, closes, j + 1)]

calculateATR(highs, lows, closes) ==
  IF Len(closes) < Period + 1 THEN Num(0)
  ELSE calculateSMA(trueRanges(highs, lows, closes), Period)

ADXFallback == [value |-> Num(15), signal |-> "NEUTRAL", strength |-> Num(50)]

plusDMs(highs, lows) ==
  [j \in 1..(Len(highs) - 1) |->
     LET upMove == Sub(highs[j + 1], highs[j])
         downMove == Sub(lows[j], lows[j + 1])
     IN IF Gt(upMove, downMove) /\ Gt(upMove, Num(0)) THEN upMove ELSE Num(0)]

minusDMs(highs, lows) ==
  [j \in 1..(Len(highs) - 1) |->
     LET upMove == Sub(highs[j + 1], highs[j])
         downMove == Sub(lows[j], lows[j + 1])
     IN IF Gt(downMove, upMove) /\ Gt(downMove, Num(0)) THEN downMove ELSE Num(0)]

\* mutant: the floor of the other indicators taken for that of ADX
ADXFloorOnePeriod == Period

\* closes.length < period * 2
ADXFloor == Period * 2

\* calculateADX from the three smoothed series on
adxOf(smoothTR, smoothPlusDM, smoothMinusDM) ==
  LET plusDI == Mul(Div(smoothPlusDM, smoothTR), Num(100))
      minusDI == Mul(Div(smoothMinusDM, smoothTR), Num(100))
      dx == Mul(Div(MathAbs(Sub(plusDI, minusDI)), Add(plusDI, minusDI)), Num(100))
      adx == dx
      signal == IF Gt(adx, Num(25))
                THEN (IF Gt(plusDI, minusDI) THEN "UP" ELSE "DOWN")
                ELSE "NEUTRAL"
  IN [value |-> adx, signal |-> signal, strength |-> Min2(Num(100), Mul(adx, Num(2)))]

calculateADX(highs, lows, closes) ==
  IF Len(closes) < ADXFloor THEN ADXFallback
  ELSE adxOf(calculateEMA(trueRanges(highs, lows, closes), Period),
             calculateEMA(plusDMs(highs, lows), Period),
             calculateEMA(minusDMs(highs, lows), Period))

RSIFallback == [value |-> Num(50), signal |-> "NEUTRAL", strength |-> Num(50)]

\* mutant: losses += diff
RECURSIVE rsiLoopSignSlip(_, _, _)
rsiLoopSignSlip(closes, i, acc) ==
  IF i > Period THEN acc
  ELSE LET diff == Sub(closes[Len(closes) - i + 1], closes[Len(closes) - i])
           nxt == IF Ge(diff, Num(0)) THEN <<Add(acc[1], diff), acc[2]>>
                  ELSE <<acc[1], Add(acc[2], diff)>>
       IN Then(nxt, rsiLoopSignSlip(closes, i + 1, nxt))

\* the for loop of calculateRSI from iteration i on, acc = <<gains, losses>>
RECURSIVE rsiLoop(_, _, _)
rsiLoop(closes, i, acc) ==
  IF i > Period THEN acc
  ELSE LET diff == Sub(closes[Len(closes) - i + 1], closes[Len(closes) - i])
           nxt == IF Ge(diff, Num(0)) THEN <<Add(acc[1], diff), acc[2]>>
                  ELSE <<acc[1], Sub(acc[2], diff)>>
       IN Then(nxt, rsiLoop(closes, i + 1, nxt))

\* mutant: the average loss used as it is, a zero included
rsiOfUnguarded(acc) ==
  LET avgGain == Div(acc[1], Num(Period))
      avgLoss == Div(acc[2], Num(Period))
      rs == Div(avgGain, avgLoss)
  IN Sub(Num(100), Div(Num(100), Add(Num(1), rs)))

\* rs and rsi of calculateRSI from the sums of the loop, acc = <<gains, losses>>;
\* the same text in both variants
rsiOf(acc) ==
  LET avgGain == Div(acc[1], Num(Period))
      avgLoss == Div(acc[2], Num(Period))
      rs == Div(avgGain, IF StrictEq(avgLoss, Num(0)) THEN Num(1) ELSE avgLoss)
  IN Sub(Num(100), Div(Num(100), Add(Num(1), rs)))

rsiValue(closes) == rsiOf(rsiLoop(closes, 1, <<Num(0), Num(0)>>))

\* mutant: the outer thresholds taken inclusively
rsiSignalInclusive(rsi) ==
  IF Le(rsi, Num(30)) THEN [value |-> rsi, signal |-> "UP", strength |-> Num(85)]
  ELSE IF Ge(rsi, Num(70)) THEN [value |-> rsi, signal |-> "DOWN", strength |-> Num(85)]
  ELSE IF Gt(rsi, Num(55)) THEN [value |-> rsi, signal |-> "UP", strength |-> Num(60)]
  ELSE IF Lt(rsi, Num(45)) THEN [value |-> rsi, signal |-> "DOWN", strength |-> Num(60)]
  ELSE [value |-> rsi, signal |-> "NEUTRAL", strength |-> Num(50)]

\* signal and strength of calculateRSI
rsiSignal(rsi) ==
  IF Lt(rsi, Num(30)) THEN [value |-> rsi, signal |-> "UP", strength |-> Num(85)]
  ELSE IF Gt(rsi, Num(70)) THEN [value |-> rsi, signal |-> "DOWN", strength |-> Num(85)]
  ELSE IF Gt(rsi, Num(55)) THEN [value |-> rsi, signal |-> "UP", strength |-> Num(60)]
  ELSE IF Lt(rsi, Num(45)) THEN [value |-> rsi, signal |-> "DOWN", strength |-> Num(60)]
  ELSE [value |-> rsi, signal |-> "NEUTRAL", strength |-> Num(50)]

calculateRSI(closes) ==
  IF Len(closes) < Period + 1 THEN RSIFallback ELSE rsiSignal(rsiValue(closes))

StochFallback == [k |-> Num(50), d |-> Num(50), signal |-> "NEUTRAL", strength |-> Num(50)]

\* calculateStoch from the close and the extremes of the window on
stochOf(currentClose, lowestLow, highestHigh) ==
  LET k == Mul(Div(Sub(currentClose, lowestLow),
                   OrElse(Sub(highestHigh, lowestLow), Num(1))), Num(100))
      signal == IF Lt(k, Num(20)) THEN "UP"
                ELSE IF Gt(k, Num(80)) THEN "DOWN" ELSE "NEUTRAL"
  IN [k |-> k, d |-> k, signal |-> signal, strength |-> Num(80)]

calculateStoch(closes, highs, lows) ==
  IF Len(closes) < Period THEN StochFallback
  ELSE stochOf(closes[Len(closes)], MathMin(SliceLast(lows, Period)),
               MathMax(SliceLast(highs, Period)))

\* the outcome of detectPatterns: the names pushed, or a TypeError thrown by
\* reading a field of candles[i] where the array has no element i
HasIndex(s, i) == i >= 1 /\ i <= Len(s)
PatternsOf(names) == [threw |-> FALSE, names |-> names]
PatternsThrew == [threw |-> TRUE, names |-> <<>>]

\* mutant: the shooting star tested only where no hammer was found
patternsOfLastTwoElseIf(cs) ==
  IF ~HasIndex(cs, Len(cs)) \/ ~HasIndex(cs, Len(cs) - 1) THEN PatternsThrew
  ELSE
    LET c1 == cs[Len(cs)]
        c2 == cs[Len(cs) - 1]
        body1 == MathAbs(Sub(c1.close, c1.open))
        body2 == MathAbs(Sub(c2.close, c2.open))
        engulf == Gt(body1, Mul(body2, Frac(3, 2)))
        upperWick == Sub(c1.high, Max2(c1.open, c1.close))
        lowerWick == Sub(Min2(c1.open, c1.close), c1.low)
    IN PatternsOf(
         (IF engulf /\ Gt(c1.close, c1.open) /\ Lt(c2.close, c2.open)
          THEN <<"Bullish Engulfing">> ELSE <<>>)
         \o (IF engulf /\ Lt(c1.close, c1.open) /\ Gt(c2.close, c2.open)
             THEN <<"Bearish Engulfing">> ELSE <<>>)
         \o (IF Gt(lowerWick, Mul(body1, Frac(5, 2))) THEN <<"Bullish Hammer">>
             ELSE IF Gt(upperWick, Mul(body1, Frac(5, 2))) THEN <<"Shooting Star">>
             ELSE <<>>))

\* detectPatterns after its length guard; names pushed in source order
patternsOfLastTwo(cs) ==
  IF ~HasIndex(cs, Len(cs)) \/ ~HasIndex(cs, Len(cs) - 1) THEN PatternsThrew
  ELSE
    LET c1 == cs[Len(cs)]
        c2 == cs[Len(cs) - 1]
        body1 == MathAbs(Sub(c1.close, c1.open))
        body2 == MathAbs(Sub(c2.close, c2.open))
        engulf == Gt(body1, Mul(body2, Frac(3, 2)))
        upperWick == Sub(c1.high, Max2(c1.open, c1.close))
        lowerWick == Sub(Min2(c1.open, c1.close), c1.low)
    IN PatternsOf(
         (IF engulf /\ Gt(c1.close, c1.open) /\ Lt(c2.close, c2.open)
          THEN <<"Bullish Engulfing">> ELSE <<>>)
         \o (IF engulf /\ Lt(c1.close, c1.open) /\ Gt(c2.close, c2.open)
             THEN <<"Bearish Engulfing">> ELSE <<>>)
         \o (IF Gt(lowerWick, Mul(body1, Frac(5, 2))) THEN <<"Bullish Hammer">> ELSE <<>>)
         \o (IF Gt(upperWick, Mul(body1, Frac(5, 2))) THEN <<"Shooting Star">> ELSE <<>>))

\* mutant: the length guard dropped
detectPatternsUnguarded(cs) == patternsOfLastTwo(cs)

detectPatterns(cs) ==
  IF Len(cs) < 3 THEN PatternsOf(<<>>) ELSE patternsOfLastTwo(cs)

-----------------------------------------------------------------------------
(* Analysis logic, simple variant *)

Highs(cs) == [i \in 1..Len(cs) |-> cs[i].high]
Lows(cs) == [i \in 1..Len(cs) |-> cs[i].low]
Closes(cs) == [i \in 1..Len(cs) |-> cs[i].close]
Volumes(cs) == [i \in 1..Len(cs) |-> cs[i].volume]

\* Number.prototype.toFixed(1): a string; called on undefined it throws
toFixed1(x) ==
  IF x = NaN THEN [text |-> "NaN", tenths |-> 0]
  ELSE IF x = PosInf THEN [text |-> "Infinity", tenths |-> 0]
  ELSE IF x = NegInf THEN [text |-> "-Infinity", tenths |-> 0]
  ELSE [text |-> "decimal",
        tenths |-> SignInt(x[1]) * ((2 * 10 * AbsInt(x[1]) + x[2]) \div (2 * x[2]))]

Threw(err) == [status |-> "threw", error |-> err]

\* mutant: signal !== s in the filter
CountSignalNegated(sigs, s) == Cardinality({i \in DOMAIN sigs : sigs[i] # s})

CountSignal(sigs, s) == Cardinality({i \in DOMAIN sigs : sigs[i] = s})

\* mutant: Math.min for Math.max
alignmentOfMinority(upSignals, downSignals) ==
  Mul(Div(Min2(Num(upSignals), Num(downSignals)), Num(3)), Num(100))

\* (Math.max(upSignals, downSignals) / 3) * 100
alignmentOf(upSignals, downSignals) ==
  Mul(Div(Max2(Num(upSignals), Num(downSignals)), Num(3)), Num(100))

\* mutant: a high-volume branch producing the fifth enum member
classifyRegimeWithVolatile(adx, ema12, ema26, volRatio) ==
  IF Gt(adx.value, Num(25))
  THEN (IF Gt(ema12, ema26) THEN "TRENDING_UP" ELSE "TRENDING_DOWN")
  ELSE IF Lt(volRatio, Frac(8, 10)) THEN "CONSOLIDATION"
  ELSE IF Gt(volRatio, Num(2)) THEN "VOLATILE"
  ELSE "RANGING"

\* mutant: the low-volume test ahead of the ADX test
classifyRegimeVolumeFirst(adx, ema12, ema26, volRatio) ==
  IF Lt(volRatio, Frac(8, 10)) THEN "CONSOLIDATION"
  ELSE IF Gt(adx.value, Num(25))
  THEN (IF Gt(ema12, ema26) THEN "TRENDING_UP" ELSE "TRENDING_DOWN")
  ELSE "RANGING"

\* the regime cascade of analyzeMarket
classifyRegime(adx, ema12, ema26, volRatio) ==
  IF Gt(adx.value, Num(25))
  THEN (IF Gt(ema12, ema26) THEN "TRENDING_UP" ELSE "TRENDING_DOWN")
  ELSE IF Lt(volRatio, Frac(8, 10)) THEN "CONSOLIDATION"
  ELSE "RANGING"

\* the sma object of the returned analysis
smaOf(sma20, sma50, sma200, currentPrice) ==
  [sma20 |-> sma20, sma50 |-> sma50, sma200 |-> sma200,
   trend |-> IF Gt(currentPrice, sma50) THEN "UP" ELSE "DOWN",
   strength |-> Num(70)]

\* analyzeMarket from the indicator values on: MACD, volume ratio, scoring and
\* the returned object
summarize(rsi, stoch, adx, atr, ema12, ema26, ema50, sma20, sma50, sma200, vma20, currentVolume, currentPrice, patterns) ==
  LET macdVal == Sub(ema12, ema26)
      volRatio == Div(currentVolume, vma20)
      sigs == <<rsi.signal, stoch.signal, adx.signal>>
      upSignals == CountSignal(sigs, "UP")
      downSignals == CountSignal(sigs, "DOWN")
      alignment == alignmentOf(upSignals, downSignals)
      regime == classifyRegime(adx, ema12, ema26, volRatio)
  IN IF patterns.threw \/ rsi.value = Undefined THEN Threw("TypeError")
     ELSE
     [status |-> "returned",
      rsi |-> [name |-> "RSI", value |-> toFixed1(rsi.value),
               signal |-> rsi.signal, strength |-> rsi.strength],
      stoch |-> stoch,
      macd |-> [value |-> macdVal, histogram |-> macdVal,
                signal |-> IF Gt(macdVal, Num(0)) THEN "UP" ELSE "DOWN",
                strength |-> Num(75)],
      adx |-> adx,
      atr |-> [value |-> atr, signal |-> "NEUTRAL", strength |-> Num(50)],
      ema |-> [ema12 |-> ema12, ema26 |-> ema26, ema50 |-> ema50,
               trend |-> IF Gt(ema12, ema50) THEN "UP" ELSE "DOWN"],
      momentum |-> [value |-> Num(0), signal |-> "NEUTRAL", strength |-> Num(50)],
      roc |-> [value |-> Num(0), signal |-> "NEUTRAL", strength |-> Num(50)],
      bollinger |-> [width |-> Num(0), signal |-> "NEUTRAL", strength |-> Num(50)],
      sma |-> smaOf(sma20, sma50, sma200, currentPrice),
      volume |-> [ratio |-> volRatio,
                  trend |-> IF Gt(volRatio, Frac(12, 10)) THEN "UP" ELSE "NEUTRAL",
                  strength |-> Num(70), vma20 |-> vma20],
      patterns |-> patterns.names,
      summary |-> [upSignals |-> Num(upSignals),
                   downSignals |-> Num(downSignals),
                   neutralSignals |-> Num(3 - (upSignals + downSignals)),
                   upScore |-> Num(upSignals * 33),
                   downScore |-> Num(downSignals * 33),
                   alignment |-> alignment,
                   regime |-> regime]]

analyzeMarket(cs) ==
  summarize(calculateRSI(Closes(cs)),
            calculateStoch(Closes(cs), Highs(cs), Lows(cs)),
            calculateADX(Highs(cs), Lows(cs), Closes(cs)),
            calculateATR(Highs(cs), Lows(cs), Closes(cs)),
            calculateEMA(Closes(cs), 12),
            calculateEMA(Closes(cs), 26),
            calculateEMA(Closes(cs), 50),
            calculateSMA(Closes(cs), 20),
            calculateSMA(Closes(cs), 50),
            calculateSMA(Closes(cs), 200),
            calculateSMA(Volumes(cs), 20),
            At(Volumes(cs), Len(cs)),
            At(Closes(cs), Len(cs)),
            detectPatterns(cs))

-----------------------------------------------------------------------------
(* Math helpers and analysis logic, extended variant (unnamed/part_006) *)

calculateSMAExt(data, period) ==
  IF Len(data) < period THEN At(data, Len(data))
  ELSE Div(Sum(SliceLast(data, period)), Num(period))

\* signal and strength of calculateRSI
rsiSignalExt(rsi) ==
  IF Lt(rsi, Num(30))
  THEN [value |-> rsi, signal |-> "UP", strength |-> Add(Num(80), Sub(Num(30), rsi))]
  ELSE IF Gt(rsi, Num(70))
  THEN [value |-> rsi, signal |-> "DOWN", strength |-> Add(Num(80), Sub(rsi, Num(70)))]
  ELSE IF Gt(rsi, Num(55)) THEN [value |-> rsi, signal |-> "UP", strength |-> Num(55)]
  ELSE IF Lt(rsi, Num(45)) THEN [value |-> rsi, signal |-> "DOWN", strength |-> Num(55)]
  ELSE [value |-> rsi, signal |-> "NEUTRAL", strength |-> Num(50)]

calculateRSIExt(closes) ==
  IF Len(closes) < Period + 1 THEN RSIFallback ELSE rsiSignalExt(rsiValue(closes))

\* calculateStoch from the close and the extremes of the window on
stochOfExt(currentClose, lowestLow, highestHigh) ==
  LET k == Mul(Div(Sub(currentClose, lowestLow), Sub(highestHigh, lowestLow)), Num(100))
  IN IF Lt(k, Num(20)) THEN [k |-> k, d |-> k, signal |-> "UP", strength |-> Num(90)]
     ELSE IF Gt(k, Num(80)) THEN [k |-> k, d |-> k, signal |-> "DOWN", strength |-> Num(90)]
     ELSE [k |-> k, d |-> k, signal |-> "NEUTRAL", strength |-> Num(50)]

calculateStochExt(closes, highs, lows) ==
  IF Len(closes) < Period THEN StochFallback
  ELSE stochOfExt(closes[Len(closes)], MathMin(SliceLast(lows, Period)),
                  MathMax(SliceLast(highs, Period)))

\* largest r in lo..hi with r * r <= n (lo * lo <= n)
RECURSIVE isqrtSearch(_, _, _)
isqrtSearch(n, lo, hi) ==
  IF lo >= hi THEN lo
  ELSE LET mid == (lo + hi + 1) \div 2
       IN IF mid * mid <= n THEN isqrtSearch(n, mid, hi)
          ELSE isqrtSearch(n, lo, mid - 1)

\* Math.sqrt: of n/d, the root of n*d rounded down to an integer, over d
\* (exact on squares of rationals)
MathSqrt(x0) ==
  LET x == ToNumber(x0)
  IN IF x = NaN \/ x = NegInf THEN NaN
     ELSE IF x = PosInf THEN PosInf
     ELSE IF x[1] < 0 THEN NaN
     ELSE Norm(isqrtSearch(x[1] * x[2], 0, 46340), x[2])

\* slice.reduce((a, b) => a + Math.pow(b - sma, 2), 0)
RECURSIVE sumSquares(_, _, _, _)
sumSquares(s, sma, i, acc) ==
  IF i > Len(s) THEN acc
  ELSE LET nxt == Add(acc, Mul(Sub(s[i], sma), Sub(s[i], sma)))
       IN Then(nxt, sumSquares(s, sma, i + 1, nxt))

\* calculateBollinger from the mean, the deviation and the latest close on
bollingerOf(sma, stdDev, current) ==
  LET upper == Add(sma, Mul(Num(2), stdDev))
      lower == Sub(sma, Mul(Num(2), stdDev))
      widthPct == Mul(Div(Sub(upper, lower), sma), Num(100))
      signal == IF Lt(current, lower) THEN "UP"
                ELSE IF Gt(current, upper) THEN "DOWN" ELSE "NEUTRAL"
  IN [upper |-> upper, lower |-> lower, middle |-> sma, width |-> widthPct,
      signal |-> signal,
      strength |-> IF signal = "NEUTRAL" THEN Num(50) ELSE Num(75)]

\* variance and stdDev of calculateBollinger
stdDevOf(slice, sma) == MathSqrt(Div(sumSquares(slice, sma, 1, Num(0)), Num(20)))

bollingerAround(closes, sma) ==
  bollingerOf(sma, stdDevOf(SliceLast(closes, 20), sma), At(closes, Len(closes)))

calculateBollinger(closes) == bollingerAround(closes, calculateSMAExt(closes, 20))

calculateMomentum(closes) ==
  LET current == At(closes, Len(closes))
      prev == At(closes, Len(closes) - 10)
      mom == Sub(current, prev)
  IN [value |-> mom,
      signal |-> IF Gt(mom, Num(0)) THEN "UP"
                 ELSE IF Lt(mom, Num(0)) THEN "DOWN" ELSE "NEUTRAL",
      strength |-> Add(Num(50), Min2(Num(50), MathAbs(mom)))]

calculateROC(closes) ==
  LET current == At(closes, Len(closes))
      prev == At(closes, Len(closes) - Period)
      roc == Mul(Div(Sub(current, prev), prev), Num(100))
  IN [value |-> roc,
      signal |-> IF Gt(roc, Frac(1, 2)) THEN "UP"
                 ELSE IF Lt(roc, Frac(-1, 2)) THEN "DOWN" ELSE "NEUTRAL",
      strength |-> Add(Num(50), Min2(Num(50), Mul(MathAbs(roc), Num(10))))]

\* the regime rules of the extended analyzeMarket
classifyRegimeExt(trendSignal, alignment, width) ==
  LET byTrend == IF trendSignal = "UP" /\ Gt(alignment, Num(60)) THEN "TRENDING_UP"
                 ELSE IF trendSignal = "DOWN" /\ Gt(alignment, Num(60)) THEN "TRENDING_DOWN"
                 ELSE "RANGING"
  IN IF Lt(width, Num(3)) THEN "CONSOLIDATION" ELSE byTrend

\* totalScore, alignment, regime and the summary object of analyzeMarket
scoreExt(upSignals, downSignals, neutralSignals, upScore, downScore, trendSignal, width) ==
  LET totalScore == Add(Add(upScore, downScore), Num(1))
      alignment == Mul(Div(Max2(upScore, downScore), totalScore), Num(100))
  IN [upSignals |-> Num(upSignals),
      downSignals |-> Num(downSignals),
      neutralSignals |-> Num(neutralSignals),
      upScore |-> upScore,
      downScore |-> downScore,
      alignment |-> alignment,
      regime |-> classifyRegimeExt(trendSignal, alignment, width)]

\* trendSignal and trendStrength of analyzeMarket
trendOfExt(currentPrice, sma50, sma200) ==
  IF Gt(currentPrice, sma50)
  THEN [signal |-> "UP", strength |-> IF Gt(sma50, sma200) THEN Num(80) ELSE Num(60)]
  ELSE [signal |-> "DOWN", strength |-> IF Lt(sma50, sma200) THEN Num(80) ELSE Num(60)]

\* analyzeMarket from the indicator values on: trend, MACD, volume, scoring and
\* the returned object
summarizeExt(rsi, stoch, bb, momentum, roc, sma20, sma50, sma200, ema12, ema26, avgVol, currentVol, currentPrice, prevClose) ==
  LET trendSignal == trendOfExt(currentPrice, sma50, sma200).signal
      trendStrength == trendOfExt(currentPrice, sma50, sma200).strength
      macdVal == Sub(ema12, ema26)
      macdSignal == IF Gt(macdVal, Num(0)) THEN "UP" ELSE "DOWN"
      volRatio == Div(currentVol, avgVol)
      volSignal ==
        IF Gt(volRatio, Frac(3, 2)) /\ Gt(currentPrice, prevClose) THEN "UP"
        ELSE IF Gt(volRatio, Frac(3, 2)) THEN "DOWN" ELSE "NEUTRAL"
      sigs == <<rsi.signal, stoch.signal, bb.signal, momentum.signal, roc.signal,
                trendSignal, macdSignal, volSignal>>
      upSignals == CountSignal(sigs, "UP")
      downSignals == CountSignal(sigs, "DOWN")
      neutralSignals == CountSignal(sigs, "NEUTRAL")
      upScore == Add(Add(Num(upSignals * 50),
                         IF rsi.signal = "UP" THEN rsi.strength ELSE Num(0)),
                     IF trendSignal = "UP" THEN trendStrength ELSE Num(0))
      downScore == Add(Add(Num(downSignals * 50),
                           IF rsi.signal = "DOWN" THEN rsi.strength ELSE Num(0)),
                       IF trendSignal = "DOWN" THEN trendStrength ELSE Num(0))
  IN IF rsi.value = Undefined THEN Threw("TypeError")
     ELSE
     [status |-> "returned",
      rsi |-> [name |-> "RSI", value |-> toFixed1(rsi.value),
               signal |-> rsi.signal, strength |-> rsi.strength],
      stoch |-> stoch,
      macd |-> [value |-> macdVal, signal |-> macdSignal, strength |-> Num(75)],
      adx |-> [value |-> Num(25), signal |-> "NEUTRAL", strength |-> Num(50)],
      momentum |-> [value |-> momentum.value, signal |-> momentum.signal,
                    strength |-> momentum.strength],
      roc |-> [value |-> roc.value, signal |-> roc.signal, strength |-> roc.strength],
      bollinger |-> bb,
      sma |-> [sma20 |-> sma20, sma50 |-> sma50, sma200 |-> sma200,
               trend |-> trendSignal, strength |-> trendStrength],
      volume |-> [ratio |-> volRatio, trend |-> volSignal,
                  strength |-> Min2(Num(100), Mul(volRatio, Num(50)))],
      summary |-> scoreExt(upSignals, downSignals, neutralSignals, upScore, downScore,
                           trendSignal, bb.width)]

analyzeMarketExt(cs) ==
  summarizeExt(calculateRSIExt(Closes(cs)),
               calculateStochExt(Closes(cs), Highs(cs), Lows(cs)),
               calculateBollinger(Closes(cs)),
               calculateMomentum(Closes(cs)),
               calculateROC(Closes(cs)),
               calculateSMAExt(Closes(cs), 20),
               calculateSMAExt(Closes(cs), 50),
               calculateSMAExt(Closes(cs), 200),
               calculateSMAExt(SliceLast(Closes(cs), 12), 12),
               calculateSMAExt(SliceLast(Closes(cs), 26), 26),
               calculateSMAExt(Volumes(cs), 20),
               At(Volumes(cs), Len(cs)),
               At(Closes(cs), Len(cs)),
               At(Closes(cs), Len(cs) - 1))

-----------------------------------------------------------------------------
(* The caller: a candle sequence handed to analyzeMarket of either variant *)

MaxPrefix == 30
MaxTail == 2

Candle(o, h, l, c, v) ==
  [open |-> Num(o), high |-> Num(h), low |-> Num(l), close |-> Num(c), volume |-> Num(v)]

\* candles the sequence may consist of: a flat candle without volume, an ordinary bar
BaseCandles == {Candle(10, 10, 10, 10, 0), Candle(10, 12, 9, 11, 10)}

\* a candle whose close is missing
MalformedCandle == [Candle(10, 11, 9, 10, 5) EXCEPT !.close = Undefined]

\* candles the sequence may end with
TailCandles ==
  {Candle(10, 13, 8, 8, 4), Candle(8, 12, 8, 11, 10), Candle(8, 12, 8, 12, 30),
   Candle(10, 30, 9, 12, 2), MalformedCandle}

Repeat(c, n) == [i \in 1..n |-> c]

Tails == UNION {[1..k -> TailCandles] : k \in 0..MaxTail}

Inputs == {Repeat(b, n) \o t : b \in BaseCandles, n \in 0..MaxPrefix, t \in Tails}

NoResult == [status |-> "none"]

\* no math helper called on its own
NoCall == [fn |-> "none"]

\* the requests the application can have in flight at once: two tool-call
\* messages of the live session and the text form
VoiceHandlers == {"voice1", "voice2"}

Handlers == VoiceHandlers \cup {"text"}

\* concurrent POST /api/credits/deduct requests of one user
Requests == {"r1", "r2", "r3"}

\* a handler that is not running
Idle == [at |-> "idle", then |-> "none"]

\* the App component after mount, before the call is started
AppInit ==
  /\ stage = "null"
  /\ deepAnalysis = FALSE
  /\ isSystemBusy = FALSE
  /\ orbState = "idle"
  /\ isMicActive = FALSE
  /\ isAnalysisRunningRef = FALSE
  /\ visualCompleteResolverRef = "null"
  /\ whopUser = [credits |-> 0]
  /\ liveAudio = FALSE
  /\ pc = [p \in Handlers |-> Idle]
  /\ ret = [p \in Handlers |-> "none"]

\* the server with no request received
SrvInit ==
  /\ dbCredits = 0
  /\ creditsBefore = 0
  /\ reqPc = [r \in Requests |-> "none"]
  /\ reqUser = [r \in Requests |-> 0]
  /\ reqRes = [r \in Requests |-> "none"]

Init ==
  /\ AppInit
  /\ SrvInit
  /\ candles \in Inputs
  /\ engine = "none"
  /\ result = NoResult
  /\ helper = NoCall
  /\ value = Undefined

\* mutant: detectPatterns taking its two candles with candles.pop()
AnalyzeSimplePopping ==
  /\ engine = "none"
  /\ result' = analyzeMarket(candles)
  /\ engine' = "simple"
  /\ candles' = IF Len(candles) < 3 THEN candles
                ELSE SubSeq(candles, 1, Len(candles) - 2)
  /\ UNCHANGED <<helper, value>>
  /\ UNCHANGED <<appVars, srvVars>>

AnalyzeSimple ==
  /\ engine = "none"
  /\ result' = analyzeMarket(candles)
  /\ engine' = "simple"
  /\ UNCHANGED <<candles, helper, value>>
  /\ UNCHANGED <<appVars, srvVars>>

AnalyzeExtended ==
  /\ engine = "none"
  /\ result' = analyzeMarketExt(candles)
  /\ engine' = "extended"
  /\ UNCHANGED <<candles, helper, value>>
  /\ UNCHANGED <<appVars, srvVars>>

Next == AnalyzeSimple \/ AnalyzeExtended

Spec == Init /\ [][Next]_vars

-----------------------------------------------------------------------------
(* The math helpers called on their own, on short series and small periods *)

MaxSeries == 3
MaxPeriod == 3
MaxRSIHalves == 200
MaxPrice == 3

SeriesValues == {Num(-2), Num(0), Num(1), Num(3)}

SeriesInputs == UNION {[1..n -> SeriesValues] : n \in 0..MaxSeries}

\* RSI values in steps of one half, and NaN
RSIValues == {Frac(n, 2) : n \in 0..MaxRSIHalves} \cup {NaN}

InitHelpers ==
  /\ AppInit
  /\ SrvInit
  /\ candles = <<>>
  /\ engine = "none"
  /\ result = NoResult
  /\ helper = NoCall
  /\ value = Undefined

CallSMA ==
  /\ helper = NoCall
  /\ \E data \in SeriesInputs, period \in 1..MaxPeriod :
       /\ helper' = [fn |-> "calculateSMA", data |-> data, period |-> period]
       /\ value' = calculateSMA(data, period)
  /\ UNCHANGED <<candles, engine, result>>
  /\ UNCHANGED <<appVars, srvVars>>

CallSMAExt ==
  /\ helper = NoCall
  /\ \E data \in SeriesInputs, period \in 1..MaxPeriod :
       /\ helper' = [fn |-> "calculateSMAExt", data |-> data, period |-> period]
       /\ value' = calculateSMAExt(data, period)
  /\ UNCHANGED <<candles, engine, result>>
  /\ UNCHANGED <<appVars, srvVars>>

CallEMA ==
  /\ helper = NoCall
  /\ \E data \in SeriesInputs, period \in 1..MaxPeriod :
       /\ helper' = [fn |-> "calculateEMA", data |-> data, period |-> period]
       /\ value' = calculateEMA(data, period)
  /\ UNCHANGED <<candles, engine, result>>
  /\ UNCHANGED <<appVars, srvVars>>

\* the signal part of calculateRSI on an RSI value
CallRSISignal ==
  /\ helper = NoCall
  /\ \E rsi \in RSIValues :
       /\ helper' = [fn |-> "rsiSignal", data |-> <<rsi>>, period |-> Period]
       /\ value' = rsiSignal(rsi)
  /\ UNCHANGED <<candles, engine, result>>
  /\ UNCHANGED <<appVars, srvVars>>

\* closing prices and averages the trend rule is applied to
PriceTriples == {<<Num(p), Num(a), Num(b)>> : p \in 1..MaxPrice, a \in 1..MaxPrice, b \in 1..MaxPrice}

\* the sma object of the simple variant on <<currentPrice, sma50, sma200>>
CallSMATrend ==
  /\ helper = NoCall
  /\ \E t \in PriceTriples :
       /\ helper' = [fn |-> "smaOf", data |-> t, period |-> 50]
       /\ value' = smaOf(t[1], t[2], t[3], t[1])
  /\ UNCHANGED <<candles, engine, result>>
  /\ UNCHANGED <<appVars, srvVars>>

\* the trend rule of the extended variant on <<currentPrice, sma50, sma200>>
CallTrendExt ==
  /\ helper = NoCall
  /\ \E t \in PriceTriples :
       /\ helper' = [fn |-> "trendOfExt", data |-> t, period |-> 50]
       /\ value' = trendOfExt(t[1], t[2], t[3])
  /\ UNCHANGED <<candles, engine, result>>
  /\ UNCHANGED <<appVars, srvVars>>

\* candles for detectPatterns: a flat one, a doji with both wicks, a small bearish
\* and a small bullish one, a large bullish and a large bearish one with both
\* wicks longer than 2.5 bodies
PatternCandles ==
  {Candle(10, 10, 10, 10, 1), Candle(10, 12, 8, 10, 1), Candle(10, 10, 9, 9, 1),
   Candle(9, 10, 9, 10, 1), Candle(9, 17, 3, 11, 1), Candle(11, 17, 3, 9, 1)}

PatternInputs == UNION {[1..n -> PatternCandles] : n \in 0..MaxSeries}

CallDetectPatterns ==
  /\ helper = NoCall
  /\ \E cs \in PatternInputs :
       /\ helper' = [fn |-> "detectPatterns", data |-> cs, period |-> 2]
       /\ value' = detectPatterns(cs)
  /\ UNCHANGED <<candles, engine, result>>
  /\ UNCHANGED <<appVars, srvVars>>

NextHelpers ==
  \/ CallSMA \/ CallSMAExt \/ CallEMA \/ CallRSISignal \/ CallSMATrend \/ CallTrendExt
  \/ CallDetectPatterns

SpecHelpers == InitHelpers /\ [][NextHelpers]_vars

-----------------------------------------------------------------------------
(* Properties *)

Called == engine # "none"
Returned == Called /\ result.status = "returned"

Fields(c) == <<c.open, c.high, c.low, c.close, c.volume>>

\* every OHLCV field of every candle is a number
NumericInput(cs) == \A i \in 1..Len(cs) : \A j \in 1..5 : Fields(cs[i])[j] # Undefined

\* finite fields with low <= open, close <= high and volume >= 0
WellFormed(cs) ==
  \A i \in 1..Len(cs) :
    /\ \A j \in 1..5 : IsFinite(Fields(cs[i])[j])
    /\ Le(cs[i].low, cs[i].open) /\ Le(cs[i].open, cs[i].high)
    /\ Le(cs[i].low, cs[i].close) /\ Le(cs[i].close, cs[i].high)
    /\ Ge(cs[i].volume, Num(0))

FiniteCloses(cs) == \A i \in 1..Len(cs) : IsFinite(cs[i].close)

\* the numeric fields of a result of the simple variant
NumbersSimple(r) ==
  {r.stoch.k, r.stoch.d, r.macd.value, r.macd.histogram, r.adx.value, r.atr.value,
   r.ema.ema12, r.ema.ema26, r.ema.ema50, r.momentum.value, r.roc.value,
   r.bollinger.width, r.sma.sma20, r.sma.sma50, r.sma.sma200, r.volume.ratio,
   r.volume.vma20, r.summary.upSignals, r.summary.downSignals,
   r.summary.neutralSignals, r.summary.upScore, r.summary.downScore,
   r.summary.alignment}

StrengthsSimple(r) ==
  {r.rsi.strength, r.stoch.strength, r.macd.strength, r.adx.strength, r.atr.strength,
   r.momentum.strength, r.roc.strength, r.bollinger.strength, r.sma.strength,
   r.volume.strength}

StrengthsExtended(r) ==
  {r.rsi.strength, r.stoch.strength, r.macd.strength, r.adx.strength,
   r.momentum.strength, r.roc.strength, r.bollinger.strength, r.sma.strength,
   r.volume.strength}

Strengths(r) == IF engine = "simple" THEN StrengthsSimple(r) ELSE StrengthsExtended(r)

\* C1 (as claimed): for a well-formed candle sequence of length >= 1 every numeric
\* field of the result of analyzeMarket (simple variant) is finite, the RSI text
\* included: no zero divisor reaches the output as NaN or Infinity.
C1_AllFieldsFinite ==
  (engine = "simple" /\ Len(candles) >= 1 /\ WellFormed(candles))
    => /\ Returned
       /\ \A x \in NumbersSimple(result) \cup StrengthsSimple(result) : IsFinite(x)
       /\ result.rsi.value.text = "decimal"

RSIOf(cs) ==
  IF engine = "simple" THEN calculateRSI(Closes(cs)) ELSE calculateRSIExt(Closes(cs))

\* C2: for finite closes of any length the value returned by calculateRSI lies in
\* 0..100, in the variant that was called.
C2_RSIBounded ==
  (Called /\ FiniteCloses(candles))
    => /\ Ge(RSIOf(candles).value, Num(0))
       /\ Le(RSIOf(candles).value, Num(100))

\* C2 witness: RSI computed from a window holding a gain and a loss, strictly
\* inside the range.
C2_Witness ==
  /\ Called /\ FiniteCloses(candles) /\ Len(candles) >= Period + 1
  /\ Gt(RSIOf(candles).value, Num(0))
  /\ Lt(RSIOf(candles).value, Num(100))
  /\ RSIOf(candles).value # Num(50)

\* C3: in the simple variant the returned regime is the cascade: adx.value > 25
\* gives TRENDING_UP when ema12 > ema26 and TRENDING_DOWN otherwise, whatever the
\* volume ratio; else volume ratio < 0.8 gives CONSOLIDATION; else RANGING.
C3_RegimeCascade ==
  (engine = "simple" /\ Returned)
    => /\ Gt(result.adx.value, Num(25))
            => result.summary.regime =
                 (IF Gt(result.ema.ema12, result.ema.ema26)
                  THEN "TRENDING_UP" ELSE "TRENDING_DOWN")
       /\ (~Gt(result.adx.value, Num(25)) /\ Lt(result.volume.ratio, Frac(8, 10)))
            => result.summary.regime = "CONSOLIDATION"
       /\ (~Gt(result.adx.value, Num(25)) /\ ~Lt(result.volume.ratio, Frac(8, 10)))
            => result.summary.regime = "RANGING"

\* C3 witness: ADX above 25 together with a volume ratio below 0.8, classified
\* as an uptrend.
C3_Witness ==
  /\ engine = "simple" /\ Returned
  /\ Gt(result.adx.value, Num(25))
  /\ Lt(result.volume.ratio, Frac(8, 10))
  /\ result.summary.regime = "TRENDING_UP"

\* C4: for a candle sequence with numeric fields, of any length, analyzeMarket of
\* either variant returns a TechnicalAnalysis and does not throw.
C4_NeverThrows ==
  (Called /\ NumericInput(candles)) => result.status = "returned"

\* C4 witness: a call on fewer candles than detectPatterns reads has returned.
C4_Witness ==
  /\ Called /\ Len(candles) < 2 /\ result.status = "returned"

\* C5 (as claimed): a candle with a missing OHLCV field makes analyzeMarket fail
\* with an error instead of returning a result.
C5_MalformedRejected ==
  (Called /\ ~NumericInput(candles)) => result.status = "threw"

\* C6: below its floor each indicator returns its fixed fallback: ADX below 28,
\* RSI below 15, Stochastic below 14, ATR below 15 candles.
C6_Fallbacks ==
  Called =>
    LET closes == Closes(candles)
        highs == Highs(candles)
        lows == Lows(candles)
    IN /\ Len(candles) < 28
            => calculateADX(highs, lows, closes)
                 = [value |-> <<15, 1>>, signal |-> "NEUTRAL", strength |-> <<50, 1>>]
       /\ Len(candles) < 15
            => calculateRSI(closes)
                 = [value |-> <<50, 1>>, signal |-> "NEUTRAL", strength |-> <<50, 1>>]
       /\ Len(candles) < 14
            => calculateStoch(closes, highs, lows)
                 = [k |-> <<50, 1>>, d |-> <<50, 1>>, signal |-> "NEUTRAL",
                    strength |-> <<50, 1>>]
       /\ Len(candles) < 15 => calculateATR(highs, lows, closes) = <<0, 1>>

\* C6 witness: 27 candles with moving prices: ADX is the fallback in the returned
\* result while RSI is computed.
C6_Witness ==
  /\ engine = "simple" /\ Returned /\ Len(candles) = 27
  /\ candles[27] # candles[1]
  /\ WellFormed(candles)
  /\ result.adx = [value |-> <<15, 1>>, signal |-> "NEUTRAL", strength |-> <<50, 1>>]
  /\ result.rsi.strength # Num(50)

Bearish(c) == Lt(c.close, c.open)
Bullish(c) == Gt(c.close, c.open)
Body(c) == MathAbs(Sub(c.close, c.open))
Contains(names, n) == \E i \in 1..Len(names) : names[i] = n

\* C7 (as claimed): with two or more candles, the previous one bearish and the
\* latest bullish, patterns contains "Bullish Engulfing" exactly when the latest
\* body is greater than 1.5 times the previous body.
C7_BullishEngulfing ==
  (engine = "simple" /\ Returned /\ Len(candles) >= 2
     /\ Bearish(candles[Len(candles) - 1]) /\ Bullish(candles[Len(candles)]))
    => (Contains(result.patterns, "Bullish Engulfing")
          <=> Gt(Body(candles[Len(candles)]),
                 Mul(Body(candles[Len(candles) - 1]), Frac(3, 2))))

AllThreeUp ==
  /\ engine = "simple" /\ Returned
  /\ result.summary.upSignals = Num(3)
  /\ result.summary.downSignals = Num(0)
  /\ result.summary.neutralSignals = Num(0)

\* C8 (as claimed): when RSI, Stochastic and ADX all report UP, alignment is 100
\* and the regime is TRENDING_UP.
C8_AllUpIsUptrend ==
  AllThreeUp => /\ result.summary.alignment = Num(100)
                /\ result.summary.regime = "TRENDING_UP"

\* C8 (amended): when RSI, Stochastic and ADX all report UP, alignment is 100 and
\* the regime is a trend, TRENDING_UP when ema12 > ema26 and TRENDING_DOWN
\* otherwise.
C8_AllUpIsTrend ==
  AllThreeUp => /\ result.summary.alignment = Num(100)
                /\ result.summary.regime =
                     (IF Gt(result.ema.ema12, result.ema.ema26)
                      THEN "TRENDING_UP" ELSE "TRENDING_DOWN")

\* C8 witness: all three UP on well-formed candles whose closes fell.
C8_Witness ==
  /\ AllThreeUp /\ WellFormed(candles)
  /\ result.summary.regime = "TRENDING_DOWN"

\* C10 (as claimed): every strength field of the result is an integer in 0..100,
\* in both variants.
C10_StrengthRange ==
  Returned =>
    \A x \in Strengths(result) :
      IsInteger(x) /\ Ge(x, Num(0)) /\ Le(x, Num(100))

\* max(upScore, downScore) / (upScore + downScore + 1) * 100 of a summary
ScoreAlignment(s) ==
  Mul(Div(Max2(s.upScore, s.downScore), Add(Add(s.upScore, s.downScore), Num(1))),
      Num(100))

\* C11 (as claimed): in both variants the returned alignment equals
\* max(upScore, downScore) / (upScore + downScore + 1) * 100 of the returned
\* scores and lies in 0..100.
C11_AlignmentFromScores ==
  (Returned /\ WellFormed(candles))
    => /\ result.summary.alignment = ScoreAlignment(result.summary)
       /\ Ge(result.summary.alignment, Num(0))
       /\ Le(result.summary.alignment, Num(100))

\* the signals of the aggregated indicators as the result returns them
ReturnedSignals(r) ==
  IF engine = "simple" THEN <<r.rsi.signal, r.stoch.signal, r.adx.signal>>
  ELSE <<r.rsi.signal, r.stoch.signal, r.bollinger.signal, r.momentum.signal,
         r.roc.signal, r.sma.trend, r.macd.signal, r.volume.trend>>

Occurrences(sigs, s) == Len(SelectSeq(sigs, LAMBDA x : x = s))

\* C12: upSignals, downSignals and neutralSignals are the numbers of aggregated
\* indicators whose returned signal is UP, DOWN and NEUTRAL; each is >= 0 and
\* they add up to 3 in the simple and 8 in the extended variant.
C12_SignalCounts ==
  Returned =>
    /\ result.summary.upSignals = Num(Occurrences(ReturnedSignals(result), "UP"))
    /\ result.summary.downSignals = Num(Occurrences(ReturnedSignals(result), "DOWN"))
    /\ result.summary.neutralSignals
         = Num(Occurrences(ReturnedSignals(result), "NEUTRAL"))
    /\ Ge(result.summary.upSignals, Num(0))
    /\ Ge(result.summary.downSignals, Num(0))
    /\ Ge(result.summary.neutralSignals, Num(0))
    /\ Add(Add(result.summary.upSignals, result.summary.downSignals),
           result.summary.neutralSignals)
         = Num(IF engine = "simple" THEN 3 ELSE 8)

\* C12 witness: the extended variant returned with indicators of all three
\* directions among its eight.
C12_Witness ==
  /\ engine = "extended" /\ Returned /\ WellFormed(candles)
  /\ Gt(result.summary.upSignals, Num(0))
  /\ Gt(result.summary.downSignals, Num(0))
  /\ Gt(result.summary.neutralSignals, Num(0))

\* C13: a call of analyzeMarket, its helpers included, leaves the caller's candle
\* sequence as it was: same length, same order, same fields.
C13_CandlesUnchanged == [][candles' = candles]_vars

\* C13 witness: a call that ran every helper past its floor, detectPatterns
\* included, has returned.
C13_Witness ==
  /\ Returned /\ Len(candles) >= ADXFloor
  /\ candles[Len(candles)] # candles[1]

\* C14 (as claimed): in the extended variant the trend rule comes first: when it
\* classifies the input as a trend a Bollinger width below 3 does not change
\* that, and CONSOLIDATION is returned only where the trend rule did not fire.
C14_TrendRuleFirst ==
  (engine = "extended" /\ Returned /\ WellFormed(candles))
    => /\ (result.sma.trend = "UP" /\ Gt(result.summary.alignment, Num(60)))
            => result.summary.regime = "TRENDING_UP"
       /\ (result.sma.trend = "DOWN" /\ Gt(result.summary.alignment, Num(60)))
            => result.summary.regime = "TRENDING_DOWN"
       /\ result.summary.regime = "CONSOLIDATION"
            => ~Gt(result.summary.alignment, Num(60))

\* DI+ and DI- as the claim defines them: smoothed DM over smoothed TR, times 100
PlusDI(cs) ==
  Mul(Div(calculateEMA(plusDMs(Highs(cs), Lows(cs)), Period),
          calculateEMA(trueRanges(Highs(cs), Lows(cs), Closes(cs)), Period)), Num(100))

MinusDI(cs) ==
  Mul(Div(calculateEMA(minusDMs(Highs(cs), Lows(cs)), Period),
          calculateEMA(trueRanges(Highs(cs), Lows(cs), Closes(cs)), Period)), Num(100))

\* C15 (as claimed): for >= 28 candles calculateADX reports
\* value = |DI+ - DI-| / (DI+ + DI-) * 100 with 0 <= value <= 100; the signal is
\* UP when value > 25 and DI+ > DI-, DOWN when value > 25 and DI- > DI+, NEUTRAL
\* when value is not > 25; strength = min(100, 2 * value).
C15_ADXValueAndSignal ==
  (engine = "simple" /\ Returned /\ Len(candles) >= 28 /\ WellFormed(candles))
    => /\ result.adx.value
            = Mul(Div(MathAbs(Sub(PlusDI(candles), MinusDI(candles))),
                      Add(PlusDI(candles), MinusDI(candles))), Num(100))
       /\ Ge(result.adx.value, Num(0))
       /\ Le(result.adx.value, Num(100))
       /\ result.adx.signal = "UP"
            <=> (Gt(result.adx.value, Num(25)) /\ Gt(PlusDI(candles), MinusDI(candles)))
       /\ result.adx.signal = "DOWN"
            <=> (Gt(result.adx.value, Num(25)) /\ Gt(MinusDI(candles), PlusDI(candles)))
       /\ result.adx.signal = "NEUTRAL" <=> ~Gt(result.adx.value, Num(25))
       /\ result.adx.strength = Min2(Num(100), Mul(result.adx.value, Num(2)))

\* the last Period close-to-close differences, newest first
WindowDiffs(closes) ==
  [j \in 1..Period |-> Sub(closes[Len(closes) - j + 1], closes[Len(closes) - j])]

\* average gain and average loss over the window
AverageGain(closes) ==
  Div(Sum([j \in 1..Period |->
             IF Gt(WindowDiffs(closes)[j], Num(0)) THEN WindowDiffs(closes)[j] ELSE Num(0)]),
      Num(Period))

AverageLoss(closes) ==
  Div(Sum([j \in 1..Period |->
             IF Lt(WindowDiffs(closes)[j], Num(0)) THEN Neg(WindowDiffs(closes)[j])
             ELSE Num(0)]),
      Num(Period))

NoLossInWindow(closes) == \A j \in 1..Period : ~Lt(WindowDiffs(closes)[j], Num(0))

\* C16: for >= 15 finite closes calculateRSI, in either variant, returns
\* 100 - 100 / (1 + RS) with RS = average gain / average loss over the last 14
\* differences, an average loss of 0 taken as 1; with no negative difference in
\* the window that is 100 - 100 / (1 + average gain), a finite number.
C16_RSIFormula ==
  (Called /\ Len(candles) >= Period + 1 /\ FiniteCloses(candles))
    => /\ RSIOf(candles).value
            = Sub(Num(100),
                  Div(Num(100),
                      Add(Num(1),
                          Div(AverageGain(Closes(candles)),
                              IF AverageLoss(Closes(candles)) = Num(0) THEN Num(1)
                              ELSE AverageLoss(Closes(candles))))))
       /\ NoLossInWindow(Closes(candles))
            => /\ RSIOf(candles).value
                    = Sub(Num(100),
                          Div(Num(100), Add(Num(1), AverageGain(Closes(candles)))))
               /\ IsFinite(RSIOf(candles).value)

\* C16 witness: a window with gains and no loss, so that the replaced average
\* loss decides the value.
C16_Witness ==
  /\ Called /\ Len(candles) >= Period + 1 /\ FiniteCloses(candles)
  /\ NoLossInWindow(Closes(candles))
  /\ Gt(AverageGain(Closes(candles)), Num(0))
  /\ Gt(RSIOf(candles).value, Num(0))

\* C17: in the simple variant signal and strength are a total function of the
\* RSI value v: v < 30 gives UP 85; v > 70 gives DOWN 85; 55 < v <= 70 gives
\* UP 60; 30 <= v < 45 gives DOWN 60; every other value gives NEUTRAL 50.
C17_RSISignalBands ==
  helper.fn = "rsiSignal" =>
    /\ Lt(helper.data[1], Num(30))
         => (value.signal = "UP" /\ value.strength = Num(85))
    /\ Gt(helper.data[1], Num(70))
         => (value.signal = "DOWN" /\ value.strength = Num(85))
    /\ (Gt(helper.data[1], Num(55)) /\ Le(helper.data[1], Num(70)))
         => (value.signal = "UP" /\ value.strength = Num(60))
    /\ (Ge(helper.data[1], Num(30)) /\ Lt(helper.data[1], Num(45)))
         => (value.signal = "DOWN" /\ value.strength = Num(60))
    /\ (Ge(helper.data[1], Num(45)) /\ Le(helper.data[1], Num(55)))
         => (value.signal = "NEUTRAL" /\ value.strength = Num(50))
    /\ IsNaN(helper.data[1])
         => (value.signal = "NEUTRAL" /\ value.strength = Num(50))

\* C17 witness: the value 70, the upper end of the UP 60 band, was classified.
C17_Witness ==
  /\ helper.fn = "rsiSignal"
  /\ helper.data[1] = Num(70)
  /\ value.signal = "UP" /\ value.strength = Num(60)

LowestLow(cs) == MathMin(SliceLast(Lows(cs), Period))
HighestHigh(cs) == MathMax(SliceLast(Highs(cs), Period))

\* C18 (as claimed): for >= 14 candles with low <= close <= high calculateStoch,
\* in either variant, returns k = (last close - lowest low) / (highest high -
\* lowest low) * 100 over the last 14 candles (where that range is not zero)
\* and d = k; the signal is UP exactly when k < 20, DOWN exactly when k > 80,
\* NEUTRAL otherwise; k lies in 0..100.
C18_StochFormula ==
  (Returned /\ Len(candles) >= Period /\ WellFormed(candles))
    => /\ Gt(HighestHigh(candles), LowestLow(candles))
            => result.stoch.k
                 = Mul(Div(Sub(candles[Len(candles)].close, LowestLow(candles)),
                           Sub(HighestHigh(candles), LowestLow(candles))), Num(100))
       /\ result.stoch.d = result.stoch.k
       /\ result.stoch.signal = "UP" <=> Lt(result.stoch.k, Num(20))
       /\ result.stoch.signal = "DOWN" <=> Gt(result.stoch.k, Num(80))
       /\ result.stoch.signal = "NEUTRAL"
            <=> (~Lt(result.stoch.k, Num(20)) /\ ~Gt(result.stoch.k, Num(80)))
       /\ Ge(result.stoch.k, Num(0))
       /\ Le(result.stoch.k, Num(100))

\* C19 (as claimed): calculateSMA(series, period), in both variants, returns the
\* mean of the last `period` elements when series.length >= period, the last
\* element when 0 < series.length < period, and 0 when the series is empty.
C19_SMAPolicy ==
  helper.fn \in {"calculateSMA", "calculateSMAExt"} =>
    /\ Len(helper.data) >= helper.period
         => value = Div(Sum(SubSeq(helper.data, Len(helper.data) - helper.period + 1,
                                   Len(helper.data))),
                        Num(helper.period))
    /\ (0 < Len(helper.data) /\ Len(helper.data) < helper.period)
         => value = helper.data[Len(helper.data)]
    /\ Len(helper.data) = 0 => value = Num(0)

\* ema_i = series_i * k + ema_(i-1) * (1 - k), seeded with the first element
RECURSIVE EMARecurrence(_, _, _)
EMARecurrence(series, k, i) ==
  IF i = 1 THEN series[1]
  ELSE Add(Mul(series[i], k), Mul(EMARecurrence(series, k, i - 1), Sub(Num(1), k)))

\* C20: calculateEMA(series, period) with series.length >= period is the
\* recurrence from series[0] with k = 2 / (period + 1) run over the whole series;
\* with a shorter series it is the last element, or 0 for an empty series; the
\* result of a non-empty series lies between its minimum and its maximum.
C20_EMARecurrence ==
  helper.fn = "calculateEMA" =>
    /\ Len(helper.data) >= helper.period
         => value = EMARecurrence(helper.data, Frac(2, helper.period + 1),
                                  Len(helper.data))
    /\ (0 < Len(helper.data) /\ Len(helper.data) < helper.period)
         => value = helper.data[Len(helper.data)]
    /\ Len(helper.data) = 0 => value = Num(0)
    /\ Len(helper.data) > 0
         => (Ge(value, MathMin(helper.data)) /\ Le(value, MathMax(helper.data)))

\* C20 witness: a series longer than the period whose EMA differs from the EMA
\* of its last `period` elements and lies strictly inside the series' range.
C20_Witness ==
  /\ helper.fn = "calculateEMA"
  /\ Len(helper.data) > helper.period
  /\ value # calculateEMA(SliceLast(helper.data, helper.period), helper.period)
  /\ Gt(value, MathMin(helper.data)) /\ Lt(value, MathMax(helper.data))

\* the largest of three finite numbers
Largest(a, b, c) ==
  IF Ge(a, b) /\ Ge(a, c) THEN a ELSE IF Ge(b, c) THEN b ELSE c

\* max(high_i - low_i, |high_i - close_(i-1)|, |low_i - close_(i-1)|), i >= 2
TrueRangeOfBar(cs, i) ==
  Largest(Sub(cs[i].high, cs[i].low),
          MathAbs(Sub(cs[i].high, cs[i - 1].close)),
          MathAbs(Sub(cs[i].low, cs[i - 1].close)))

\* the true ranges of the last Period bars
LastTrueRanges(cs) == [j \in 1..Period |-> TrueRangeOfBar(cs, Len(cs) - Period + j)]

\* C21: for >= 15 candles calculateATR is the mean of the last 14 true ranges,
\* and it is >= 0 for candles with high >= low.
C21_ATRMean ==
  (engine = "simple" /\ Returned /\ Len(candles) >= Period + 1 /\ WellFormed(candles))
    => /\ result.atr.value = Div(Sum(LastTrueRanges(candles)), Num(Period))
       /\ Ge(result.atr.value, Num(0))

\* C21 witness: an ATR in whose window a gap from the previous close exceeds the
\* bar's own high - low.
C21_Witness ==
  /\ engine = "simple" /\ Returned /\ Len(candles) >= Period + 1 /\ WellFormed(candles)
  /\ \E j \in 1..Period :
       Gt(LastTrueRanges(candles)[j],
          Sub(candles[Len(candles) - Period + j].high,
              candles[Len(candles) - Period + j].low))
  /\ Gt(result.atr.value, Num(0))

\* trend and strength returned by the trend rule of either variant
TrendOfCall == IF helper.fn = "smaOf" THEN value.trend ELSE value.signal

\* C22 (as claimed): in both variants sma.trend is UP exactly when the latest
\* close is greater than sma50 and DOWN otherwise, and sma.strength is 80
\* whenever sma50 and sma200 agree with the trend (UP and sma50 > sma200, or
\* DOWN and sma50 < sma200).
C22_TrendAndStrength ==
  helper.fn \in {"smaOf", "trendOfExt"} =>
    /\ TrendOfCall = "UP" <=> Gt(helper.data[1], helper.data[2])
    /\ TrendOfCall = "DOWN" <=> ~Gt(helper.data[1], helper.data[2])
    /\ (TrendOfCall = "UP" /\ Gt(helper.data[2], helper.data[3]))
         => value.strength = Num(80)
    /\ (TrendOfCall = "DOWN" /\ Lt(helper.data[2], helper.data[3]))
         => value.strength = Num(80)

\* mean and standard deviation of the last 20 closes
MeanOfLast20(cs) == Div(Sum(SliceLast(Closes(cs), 20)), Num(20))

StdDevOfLast20(cs) ==
  MathSqrt(Div(Sum([j \in 1..20 |->
                      Mul(Sub(SliceLast(Closes(cs), 20)[j], MeanOfLast20(cs)),
                          Sub(SliceLast(Closes(cs), 20)[j], MeanOfLast20(cs)))]),
               Num(20)))

UpperBand(cs) == Add(MeanOfLast20(cs), Mul(Num(2), StdDevOfLast20(cs)))
LowerBand(cs) == Sub(MeanOfLast20(cs), Mul(Num(2), StdDevOfLast20(cs)))

\* C23 (as claimed): in both variants, for >= 20 candles, bollinger.width is
\* (upper - lower) / sma20 * 100 with the bands two standard deviations of the
\* last 20 closes around their mean; bollinger.signal is UP when the latest close
\* is below the lower band, DOWN when above the upper band, NEUTRAL otherwise; a
\* standard deviation of 0 gives width 0 and NEUTRAL.
C23_BollingerBands ==
  (Returned /\ Len(candles) >= 20 /\ WellFormed(candles))
    => /\ result.bollinger.width
            = Mul(Div(Sub(UpperBand(candles), LowerBand(candles)), MeanOfLast20(candles)),
                  Num(100))
       /\ result.bollinger.signal
            = (IF Lt(candles[Len(candles)].close, LowerBand(candles)) THEN "UP"
               ELSE IF Gt(candles[Len(candles)].close, UpperBand(candles)) THEN "DOWN"
               ELSE "NEUTRAL")
       /\ StdDevOfLast20(candles) = Num(0)
            => (result.bollinger.width = Num(0) /\ result.bollinger.signal = "NEUTRAL")

\* the close n candles before the latest
CloseBack(cs, n) == cs[Len(cs) - n].close

\* percentage change of the close over Period candles
ChangeOverPeriod(cs) ==
  Mul(Div(Sub(CloseBack(cs, 0), CloseBack(cs, Period)), CloseBack(cs, Period)), Num(100))

\* C24 (as claimed): in both variants, for sequences long enough for the
\* lookback, momentum.value is the latest close minus the close 10 candles
\* earlier with signal UP when positive and DOWN when negative; roc.value is the
\* percentage change of the close over 14 candles with signal UP above 0.5, DOWN
\* below -0.5 and NEUTRAL inside the deadband.
C24_MomentumAndROC ==
  (Returned /\ Len(candles) >= Period + 1 /\ WellFormed(candles))
    => /\ result.momentum.value = Sub(CloseBack(candles, 0), CloseBack(candles, 10))
       /\ Gt(result.momentum.value, Num(0)) => result.momentum.signal = "UP"
       /\ Lt(result.momentum.value, Num(0)) => result.momentum.signal = "DOWN"
       /\ result.roc.value = ChangeOverPeriod(candles)
       /\ result.roc.signal
            = (IF Gt(ChangeOverPeriod(candles), Frac(1, 2)) THEN "UP"
               ELSE IF Lt(ChangeOverPeriod(candles), Frac(-1, 2)) THEN "DOWN"
               ELSE "NEUTRAL")

Latest(cs) == cs[Len(cs)]
Previous(cs) == cs[Len(cs) - 1]
UpperWick(c) == Sub(c.high, IF Gt(c.open, c.close) THEN c.open ELSE c.close)
LowerWick(c) == Sub(IF Lt(c.open, c.close) THEN c.open ELSE c.close, c.low)
TimesNamed(names, n) == Cardinality({i \in 1..Len(names) : names[i] = n})
PatternNames == {"Bullish Engulfing", "Bearish Engulfing", "Bullish Hammer", "Shooting Star"}

\* C25: for >= 3 candles patterns contains "Bullish Hammer" exactly when the
\* latest lower wick > 2.5 * body and "Shooting Star" exactly when the latest
\* upper wick > 2.5 * body; the two engulfing names never appear together; no
\* name appears more than once; and the result is the same whichever candle
\* stands before the last two.
C25_PinBarsAndLocality ==
  (helper.fn = "detectPatterns" /\ Len(helper.data) >= 3) =>
    /\ ~value.threw
    /\ Contains(value.names, "Bullish Hammer")
         <=> Gt(LowerWick(Latest(helper.data)), Mul(Frac(5, 2), Body(Latest(helper.data))))
    /\ Contains(value.names, "Shooting Star")
         <=> Gt(UpperWick(Latest(helper.data)), Mul(Frac(5, 2), Body(Latest(helper.data))))
    /\ ~(Contains(value.names, "Bullish Engulfing")
           /\ Contains(value.names, "Bearish Engulfing"))
    /\ \A n \in PatternNames : TimesNamed(value.names, n) <= 1
    /\ \A i \in 1..Len(value.names) : value.names[i] \in PatternNames
    /\ \A c \in PatternCandles : \A i \in 1..(Len(helper.data) - 2) :
         detectPatterns([helper.data EXCEPT ![i] = c]) = value

\* C25 witness: a hammer, a shooting star and an engulfing name on one candle.
C25_Witness ==
  /\ helper.fn = "detectPatterns" /\ Len(helper.data) >= 3
  /\ Contains(value.names, "Bullish Hammer")
  /\ Contains(value.names, "Shooting Star")
  /\ Contains(value.names, "Bullish Engulfing")

\* C26: summary.regime is always one of TRENDING_UP, TRENDING_DOWN, RANGING and
\* CONSOLIDATION, never VOLATILE, in either variant; in the simple variant it is
\* a trend exactly when adx.signal is not NEUTRAL.
C26_RegimeValues ==
  Returned =>
    /\ result.summary.regime \in {"TRENDING_UP", "TRENDING_DOWN", "RANGING", "CONSOLIDATION"}
    /\ result.summary.regime # "VOLATILE"
    /\ engine = "simple"
         => (result.summary.regime \in {"TRENDING_UP", "TRENDING_DOWN"}
               <=> result.adx.signal # "NEUTRAL")

\* C26 witness: the simple variant returned a trend, with a non-neutral ADX
\* signal, on a last candle with more than twice the average volume.
C26_Witness ==
  /\ engine = "simple" /\ Returned
  /\ result.summary.regime \in {"TRENDING_UP", "TRENDING_DOWN"}
  /\ result.adx.signal # "NEUTRAL"
  /\ Gt(result.volume.ratio, Num(2))

-----------------------------------------------------------------------------
(* src/App.tsx: the voice tool call, the text command and handleMarketAnalysis.
   A handler runs from one await to the next in one step; pc[p].at names the
   promise it awaits and pc[p].then the code that follows it. The user is not
   an unlimited one (whopUser.isUnlimited is false). *)

MaxCredits == 1

\* what the awaited promise does: resolves, rejects, resolves with no candles,
\* resolves with success false, or is overtaken by its safety timeout
Outcomes == {"ok", "fail", "empty", "refused", "timeout"}

\* hourly candle lists fetchOHLCV can resolve with
FetchedCandles ==
  {Repeat(b, Period + 1) : b \in BaseCandles}

\* typeof the value fields analyzeMarket returns: adx and atr are the numbers
\* of calculateADX and calculateATR, rsi.value is rsi.value.toFixed(1)
typeofValue == [adx |-> "number", atr |-> "number", rsi |-> "string"]

\* x.toFixed(d) throws a TypeError unless x is a number
toFixedThrows(t) == t # "number"

\* the log line after analyzeMarket: adx.value.toFixed(1), atr.value.toFixed(4),
\* rsi.value.toFixed(1)
logThrows(technicals) ==
  \/ technicals.status = "threw"
  \/ \E f \in {"adx", "atr", "rsi"} : toFixedThrows(typeofValue[f])

\* the orb after playback
Resting == IF isMicActive THEN "listening" ELSE "idle"

\* the interlock release effect, run after every commit
InterlockRelease(stageNow, orbNow, busyNow) ==
  IF stageNow = "COMPLETE" /\ orbNow \in {"listening", "idle"} /\ busyNow THEN FALSE
  ELSE busyNow

\* the state a step of handler p reads and writes
Cur(p) ==
  [stage |-> stage, deepAnalysis |-> deepAnalysis, isSystemBusy |-> isSystemBusy,
   orbState |-> orbState, isAnalysisRunningRef |-> isAnalysisRunningRef,
   visualCompleteResolverRef |-> visualCompleteResolverRef, whopUser |-> whopUser,
   pc |-> pc[p], ret |-> ret[p], candles |-> candles, engine |-> engine, result |-> result]

Await(s, at, then) == [s EXCEPT !.pc = [at |-> at, then |-> then]]

\* speak(text): first awaits geminiService.generateSpeech
speak(s, then) == Await(s, "generateSpeech", then)

\* setWhopUser with one credit less, never below 0
deducted(user) == [user EXCEPT !.credits = IF user.credits > 0 THEN user.credits - 1 ELSE 0]

\* the caller once handleMarketAnalysis has returned r: the tool call leaves
\* its try block and answers the session, the text command speaks the summary
afterAnalysis(p, s, r) ==
  IF p \in VoiceHandlers
  THEN [s EXCEPT !.ret = r, !.isAnalysisRunningRef = FALSE, !.pc = Idle]
  ELSE speak([s EXCEPT !.ret = r], "summary")

\* the catch block of handleMarketAnalysis
catch(p, s) ==
  afterAnalysis(p, [s EXCEPT !.stage = IF s.stage = "null" THEN "null" ELSE "ERROR"], "error")

\* isAnalysisRunningRef.current = true and handleMarketAnalysis up to Promise.all
runAnalysis(s) ==
  Await([s EXCEPT !.isAnalysisRunningRef = TRUE, !.ret = "none",
                  !.stage = "FETCHING_DATA", !.deepAnalysis = FALSE], "fetch", "none")

\* the code after an awaited speak
afterSpeech(s) ==
  CASE s.pc.then = "ack" -> runAnalysis(s)
    [] s.pc.then = "insufficient" -> [s EXCEPT !.pc = Idle]
    [] s.pc.then = "refused" -> [s EXCEPT !.orbState = "idle", !.isSystemBusy = FALSE, !.pc = Idle]
    [] s.pc.then = "summary" -> [s EXCEPT !.isAnalysisRunningRef = FALSE, !.pc = Idle]

\* the code after the credit deduction request
afterDeduct(p, s, o) ==
  IF p \in VoiceHandlers
  THEN IF o = "fail" THEN [s EXCEPT !.pc = Idle]
       ELSE speak([s EXCEPT !.whopUser = deducted(s.whopUser), !.isSystemBusy = TRUE], "ack")
  ELSE IF o = "refused" THEN speak(s, "refused")
       ELSE IF o = "ok" THEN Await([s EXCEPT !.whopUser = deducted(s.whopUser)], "timer", "none")
       ELSE Await(s, "timer", "none")

\* handleMarketAnalysis from Promise.all to the first delay
afterFetch(p, s, o) ==
  IF o = "ok" THEN Await(s, "delay", "PROTOCOL_LOGS") ELSE catch(p, s)

\* handleMarketAnalysis from COMPUTING_TECHNICALS to the delay after it; c is
\* the candle list the fetch had resolved with
computeTechnicals(p, s, c, technicals) ==
  IF logThrows(technicals)
  THEN catch(p, [s EXCEPT !.stage = "COMPUTING_TECHNICALS", !.candles = c,
                          !.engine = "simple", !.result = technicals])
  ELSE Await([s EXCEPT !.stage = "undefined", !.candles = c,
                       !.engine = "simple", !.result = technicals], "delay", "SENTIMENT_AUDIT")

\* handleMarketAnalysis after each delay; PROTOCOL_LOGS, SAFETY_AUDIT and
\* SENTIMENT_AUDIT are no members of AnalysisStage, so the stage is undefined
afterDelay(p, s, c) ==
  CASE s.pc.then = "PROTOCOL_LOGS" ->
         Await([s EXCEPT !.stage = "undefined"], "delay", "COMPUTING_TECHNICALS")
    [] s.pc.then = "COMPUTING_TECHNICALS" -> computeTechnicals(p, s, c, analyzeMarket(c))
    [] s.pc.then = "SENTIMENT_AUDIT" ->
         Await([s EXCEPT !.stage = "undefined"], "delay", "AGGREGATING_SIGNALS")
    [] s.pc.then = "AGGREGATING_SIGNALS" ->
         Await([s EXCEPT !.stage = "AGGREGATING_SIGNALS"], "delay", "GENERATING_THOUGHTS")
    [] s.pc.then = "GENERATING_THOUGHTS" ->
         Await([s EXCEPT !.stage = "GENERATING_THOUGHTS"], "deepAnalysis", "none")

\* handleMarketAnalysis after generateDeepAnalysis
afterDeepAnalysis(p, s, o) ==
  IF o = "ok" THEN Await([s EXCEPT !.deepAnalysis = TRUE, !.stage = "COMPLETE"], "save", "none")
  ELSE catch(p, s)

\* handleMarketAnalysis after the save request: waits for the dashboard
afterSave(p, s) == Await([s EXCEPT !.visualCompleteResolverRef = p], "visual", "none")

\* the visual promise resolved by handleAnalysisVisualComplete ("ok") or by
\* the 45 s timer; handleMarketAnalysis returns the verdict object
afterVisual(p, s, o) ==
  IF o = "ok"
  THEN afterAnalysis(p, [s EXCEPT !.visualCompleteResolverRef = "null",
                                  !.stage = IF s.stage = "null" THEN "null" ELSE "COMPLETE"], "verdict")
  ELSE afterAnalysis(p, s, "verdict")

\* the outcomes the promise handler p awaits can have
Settles(p, o) ==
  CASE pc[p].at = "idle" -> FALSE
    [] pc[p].at = "deduct" -> o \in (IF p \in VoiceHandlers THEN {"ok", "fail"} ELSE {"ok", "refused", "fail"})
    [] pc[p].at \in {"timer", "delay"} -> o = "ok"
    [] pc[p].at \in {"generateSpeech", "deepAnalysis", "save"} -> o \in {"ok", "fail"}
    [] pc[p].at = "playAudioData" -> o \in {"ok", "timeout"}
    [] pc[p].at = "fetch" -> o \in {"ok", "empty", "fail"}
    [] pc[p].at = "visual" -> visualCompleteResolverRef = p /\ o \in {"ok", "timeout"}

\* the code handler p runs when its promise settles with o, up to the next await
Continuation(p, s, o, c) ==
  CASE s.pc.at = "deduct" -> afterDeduct(p, s, o)
    [] s.pc.at = "timer" -> speak(s, "ack")
    [] s.pc.at = "generateSpeech" ->
         IF o = "ok" THEN Await([s EXCEPT !.orbState = "speaking"], "playAudioData", s.pc.then)
         ELSE afterSpeech(s)
    [] s.pc.at = "playAudioData" ->
         IF o = "ok" THEN afterSpeech([s EXCEPT !.orbState = Resting]) ELSE afterSpeech(s)
    [] s.pc.at = "fetch" -> afterFetch(p, s, o)
    [] s.pc.at = "delay" -> afterDelay(p, s, c)
    [] s.pc.at = "deepAnalysis" -> afterDeepAnalysis(p, s, o)
    [] s.pc.at = "save" -> afterSave(p, s)
    [] s.pc.at = "visual" -> afterVisual(p, s, o)

\* the state after a step of handler p, the release effect included
Commit(p, s) ==
  /\ stage' = s.stage
  /\ deepAnalysis' = s.deepAnalysis
  /\ orbState' = s.orbState
  /\ isSystemBusy' = InterlockRelease(s.stage, s.orbState, s.isSystemBusy)
  /\ isAnalysisRunningRef' = s.isAnalysisRunningRef
  /\ visualCompleteResolverRef' = s.visualCompleteResolverRef
  /\ whopUser' = s.whopUser
  /\ pc' = [pc EXCEPT ![p] = s.pc]
  /\ ret' = [ret EXCEPT ![p] = s.ret]
  /\ candles' = s.candles
  /\ engine' = s.engine
  /\ result' = s.result
  /\ UNCHANGED <<isMicActive, liveAudio, helper, value, srvVars>>

\* the live session delivers a tool call analyze_market
toolCall(s) ==
  IF s.isAnalysisRunningRef THEN s
  ELSE IF s.whopUser.credits <= 0 THEN speak(s, "insufficient")
  ELSE Await(s, "deduct", "none")

ToolCall(p) ==
  /\ p \in VoiceHandlers
  /\ isMicActive
  /\ pc[p] = Idle
  /\ Commit(p, toolCall([Cur(p) EXCEPT !.orbState = "thinking"]))

\* the text form is submitted with an analyze command
handleTextSubmit(s) ==
  IF s.whopUser.credits <= 0 THEN speak(s, "insufficient")
  ELSE IF s.isAnalysisRunningRef THEN s
  ELSE Await([s EXCEPT !.orbState = "thinking", !.isSystemBusy = TRUE], "deduct", "none")

TextSubmit ==
  /\ isMicActive
  /\ ~isSystemBusy
  /\ pc["text"] = Idle
  /\ Commit("text", handleTextSubmit(Cur("text")))

\* the candle list handler p is about to analyse
Fetched(p) ==
  IF pc[p] = [at |-> "delay", then |-> "COMPUTING_TECHNICALS"] THEN FetchedCandles ELSE {<<>>}

\* a promise settles and the handler awaiting it runs on
Resume(p) ==
  \E o \in Outcomes :
    /\ Settles(p, o)
    /\ \E c \in Fetched(p) : Commit(p, Continuation(p, Cur(p), o, c))

\* Start Call: the live session opens
StartMic ==
  /\ ~isMicActive
  /\ isMicActive' = TRUE
  /\ orbState' = "listening"
  /\ isSystemBusy' = InterlockRelease(stage, "listening", isSystemBusy)
  /\ UNCHANGED <<stage, deepAnalysis, isAnalysisRunningRef, visualCompleteResolverRef, whopUser, liveAudio, pc, ret>>
  /\ UNCHANGED <<candles, engine, result, helper, value, srvVars>>

\* End Call, enabled while the system is not busy
StopMic ==
  /\ isMicActive
  /\ ~isSystemBusy
  /\ isMicActive' = FALSE
  /\ orbState' = "idle"
  /\ stage' = "null"
  /\ deepAnalysis' = FALSE
  /\ isSystemBusy' = FALSE
  /\ UNCHANGED <<isAnalysisRunningRef, visualCompleteResolverRef, whopUser, liveAudio, pc, ret>>
  /\ UNCHANGED <<candles, engine, result, helper, value, srvVars>>

\* onclose or onerror of the live session
SessionClosed ==
  /\ isMicActive
  /\ isMicActive' = FALSE
  /\ orbState' = "idle"
  /\ isSystemBusy' = InterlockRelease(stage, "idle", isSystemBusy)
  /\ UNCHANGED <<stage, deepAnalysis, isAnalysisRunningRef, visualCompleteResolverRef, whopUser, liveAudio, pc, ret>>
  /\ UNCHANGED <<candles, engine, result, helper, value, srvVars>>

\* the live session delivers audio of the model: playAudioData, not awaited
LiveAudio ==
  /\ isMicActive
  /\ ~liveAudio
  /\ liveAudio' = TRUE
  /\ orbState' = "speaking"
  /\ UNCHANGED <<stage, deepAnalysis, isSystemBusy, isMicActive, isAnalysisRunningRef, visualCompleteResolverRef, whopUser, pc, ret>>
  /\ UNCHANGED <<candles, engine, result, helper, value, srvVars>>

\* the model's audio has played
LiveAudioEnded ==
  /\ liveAudio
  /\ liveAudio' = FALSE
  /\ orbState' = Resting
  /\ isSystemBusy' = InterlockRelease(stage, Resting, isSystemBusy)
  /\ UNCHANGED <<stage, deepAnalysis, isMicActive, isAnalysisRunningRef, visualCompleteResolverRef, whopUser, pc, ret>>
  /\ UNCHANGED <<candles, engine, result, helper, value, srvVars>>

InitApp ==
  /\ stage = "null"
  /\ deepAnalysis = FALSE
  /\ isSystemBusy = FALSE
  /\ orbState = "idle"
  /\ isMicActive = FALSE
  /\ isAnalysisRunningRef = FALSE
  /\ visualCompleteResolverRef = "null"
  /\ whopUser \in {[credits |-> n] : n \in 0..MaxCredits}
  /\ liveAudio = FALSE
  /\ pc = [p \in Handlers |-> Idle]
  /\ ret = [p \in Handlers |-> "none"]
  /\ SrvInit
  /\ candles = <<>>
  /\ engine = "none"
  /\ result = NoResult
  /\ helper = NoCall
  /\ value = Undefined

NextApp ==
  \/ StartMic
  \/ StopMic
  \/ SessionClosed
  \/ LiveAudio
  \/ LiveAudioEnded
  \/ TextSubmit
  \/ \E p \in VoiceHandlers : ToolCall(p)
  \/ \E p \in Handlers : Resume(p)

SpecApp == InitApp /\ [][NextApp]_vars

-----------------------------------------------------------------------------
(* Properties of the analysis handlers of src/App.tsx *)

\* handleMarketAnalysis is in progress for handler p
Running(p) == pc[p].at \in {"fetch", "delay", "deepAnalysis", "save", "visual"}

\* handler p steps on from one of the delays that follow a successful fetch
\* of a non-empty candle list
StepsAfterFetch(p) == pc[p].at = "delay" /\ pc'[p] # pc[p]

\* C27: once the four fetches have succeeded with a non-empty hourly candle
\* list, no step that handleMarketAnalysis takes through its stages, the
\* formatting of adx.value, atr.value and rsi.value of analyzeMarket's result
\* included, sets stage ERROR or returns the error object.
C27_NoErrorAfterFetch ==
  [][\A p \in Handlers : StepsAfterFetch(p) => (stage' # "ERROR" /\ ret'[p] # "error")]_vars

\* no handler is between two awaits and no audio of the model is playing
Quiescent == (\A p \in Handlers : pc[p] = Idle) /\ ~liveAudio

\* C28: when every analysis request has run to its end, on the success path or
\* on a failure path, isSystemBusy is false again, so the controls it disables
\* are enabled.
C28_BusyReleased == Quiescent => ~isSystemBusy

\* C29: under every interleaving of tool calls and text commands at most one
\* handleMarketAnalysis run is in progress.
C29_SingleRun == Cardinality({p \in Handlers : Running(p)}) <= 1

-----------------------------------------------------------------------------
(* src/server.js: POST /api/credits/deduct, for one stored user who is not a Pro
   user. A request runs from one await to the next in one step; reqPc[r]
   names the promise it awaits. *)

\* what the awaited promise of a request does
SrvOutcomes == {"ok", "fail"}

\* a request with the user's token arrives: whopClient.verifyUserToken is awaited
Deduct(r) ==
  /\ reqPc[r] = "none"
  /\ reqPc' = [reqPc EXCEPT ![r] = "verifyUserToken"]
  /\ UNCHANGED <<dbCredits, creditsBefore, reqUser, reqRes>>
  /\ UNCHANGED <<candles, engine, result, helper, value, appVars>>

\* the token is verified: User.findOne is awaited; a rejection is answered 500
Verified(r) ==
  /\ reqPc[r] = "verifyUserToken"
  /\ \E o \in SrvOutcomes :
       IF o = "ok" THEN reqPc' = [reqPc EXCEPT ![r] = "findOne"] /\ reqRes' = reqRes
       ELSE reqPc' = [reqPc EXCEPT ![r] = "done"] /\ reqRes' = [reqRes EXCEPT ![r] = "500"]
  /\ UNCHANGED <<dbCredits, creditsBefore, reqUser>>
  /\ UNCHANGED <<candles, engine, result, helper, value, appVars>>

\* findOne resolves with the stored document: with credits left the request
\* lowers its own copy and awaits user.save(), without it answers 403
Found(r) ==
  /\ reqPc[r] = "findOne"
  /\ \E o \in SrvOutcomes :
       IF o = "fail"
       THEN /\ reqPc' = [reqPc EXCEPT ![r] = "done"]
            /\ reqRes' = [reqRes EXCEPT ![r] = "500"]
            /\ reqUser' = reqUser
       ELSE IF dbCredits > 0
       THEN /\ reqUser' = [reqUser EXCEPT ![r] = dbCredits - 1]
            /\ reqPc' = [reqPc EXCEPT ![r] = "save"]
            /\ reqRes' = reqRes
       ELSE /\ reqUser' = [reqUser EXCEPT ![r] = dbCredits]
            /\ reqPc' = [reqPc EXCEPT ![r] = "done"]
            /\ reqRes' = [reqRes EXCEPT ![r] = "403"]
  /\ UNCHANGED <<dbCredits, creditsBefore>>
  /\ UNCHANGED <<candles, engine, result, helper, value, appVars>>

\* user.save() writes the request's copy of credits to the stored document and
\* the request answers success: true; a rejection is answered 500
Saved(r) ==
  /\ reqPc[r] = "save"
  /\ \E o \in SrvOutcomes :
       IF o = "ok"
       THEN /\ dbCredits' = reqUser[r]
            /\ reqRes' = [reqRes EXCEPT ![r] = "success"]
       ELSE /\ dbCredits' = dbCredits
            /\ reqRes' = [reqRes EXCEPT ![r] = "500"]
  /\ reqPc' = [reqPc EXCEPT ![r] = "done"]
  /\ UNCHANGED <<creditsBefore, reqUser>>
  /\ UNCHANGED <<candles, engine, result, helper, value, appVars>>

\* the stored balance before the requests
InitCredits ==
  /\ dbCredits \in 0..MaxCredits
  /\ creditsBefore = dbCredits
  /\ reqPc = [r \in Requests |-> "none"]
  /\ reqUser = [r \in Requests |-> 0]
  /\ reqRes = [r \in Requests |-> "none"]
  /\ AppInit
  /\ candles = <<>>
  /\ engine = "none"
  /\ result = NoResult
  /\ helper = NoCall
  /\ value = Undefined

NextCredits == \E r \in Requests : Deduct(r) \/ Verified(r) \/ Found(r) \/ Saved(r)

SpecCredits == InitCredits /\ [][NextCredits]_vars

-----------------------------------------------------------------------------
(* Properties of POST /api/credits/deduct *)

\* the requests answered with success: true
Successful == {r \in Requests : reqRes[r] = "success"}

\* C30: every request answered with success: true has lowered the stored
\* balance by exactly 1, so the successful deductions never exceed the balance
\* before the requests and the stored balance never drops below 0.
C30_DeductionsWithinBalance ==
  /\ dbCredits = creditsBefore - Cardinality(Successful)
  /\ Cardinality(Successful) <= creditsBefore
  /\ dbCredits >= 0

=============================================================================
